---- MODULE Spec2Model ----
(***************************************************************************)
(* A model of dropbox/stopwatch (src/stopwatch.py): one StopWatch object   *)
(* driven by an arbitrary caller.                                          *)
(*                                                                         *)
(* Representation                                                          *)
(*  - Times are whole seconds (the set Times), so every product and quotient  *)
(*    of stopwatch.py is exact in floating point.  Millisecond quantities  *)
(*    (tr_delta_ms, TRACING_MIN_NUM_MILLISECONDS) are held in thousandths  *)
(*    of a millisecond, so that the floor 0.001 of line 256 is the         *)
(*    integer 1.                                                           *)
(*  - Python's None is the number None where a number is expected, the     *)
(*    string NoName / NoBucket where a string is expected and NoReport     *)
(*    where a report is expected.                                          *)
(*  - span_id is 128 random bits (line 61); the model draws a fresh        *)
(*    number for every span, i.e. it assumes that no two ids collide.      *)
(*  - The two export callbacks are the caller's; the model records each    *)
(*    invocation and its argument in `exported` and assumes they return,   *)
(*    except for the caller of SpecExport, whose callbacks may raise.      *)
(*  - call, raised, exported, popped describe the most recent call; opened, *)
(*    nested, closes and last_closes are history variables kept for the    *)
(*    properties and read by no operation.  args holds the arguments of    *)
(*    the most recent call that `call` does not, for the callers that      *)
(*    record them, and NoArgs otherwise.                                   *)
(***************************************************************************)
EXTENDS Integers, Sequences, FiniteSets, TLC

VARIABLES
    timer_stack,                          \* self._timer_stack
    strict_assert,                        \* self._strict_assert
    MAX_REQUEST_TRACING_SPANS_FOR_PATH,   \* self.MAX_REQUEST_TRACING_SPANS_FOR_PATH
    TRACING_MIN_NUM_MILLISECONDS,         \* self.TRACING_MIN_NUM_MILLISECONDS
    reported_values,                      \* self._reported_values
    reported_traces,                      \* self._reported_traces
    root_annotations,                     \* self._root_annotations
    slow_annotations,                     \* self._slow_annotations
    last_trace_report,                    \* self._last_trace_report
    last_aggregated_report,               \* self._last_aggregated_report
    next_span_id,                         \* the next value drawn for a span_id
    call,                                 \* the most recent call and its arguments
    raised,                               \* the exception it raised, or NoError
    exported,                             \* the callbacks it invoked, in order
    popped,                               \* the names of the spans it popped, in order
    opened,                               \* names the caller has started and not ended
    nested,                               \* every end() so far named the innermost open span
    closes,                               \* spans end() resolved to since the last _reset
    last_closes,                          \* the same, for the last completed root
    annotation_calls,                     \* number of add_*annotation calls so far
    args,                                 \* further arguments of the most recent call, where recorded
    blocks,                               \* the `with sw.timer(...)` blocks control is inside, outermost first
    exception,                            \* the exception propagating in the caller, or NoError
    GLOBAL_SW,                            \* stopwatch_global._GLOBAL_SW
    registries,                           \* the _GlobalSw objects built so far
    stopwatches,                          \* the StopWatch objects they built
    threads,                              \* each thread's position in global_sw()
    returned,                             \* what global_sw() has returned, and to whom
    formatted,                            \* what format_last_report() returned last
    last_is_live                          \* the last reports hold the very dict and list end() is still filling

sw_vars == <<timer_stack, strict_assert, MAX_REQUEST_TRACING_SPANS_FOR_PATH,
             TRACING_MIN_NUM_MILLISECONDS, reported_values, reported_traces,
             root_annotations, slow_annotations, last_trace_report,
             last_aggregated_report>>

vars == <<timer_stack, strict_assert, MAX_REQUEST_TRACING_SPANS_FOR_PATH,
          TRACING_MIN_NUM_MILLISECONDS, reported_values, reported_traces,
          root_annotations, slow_annotations, last_trace_report,
          last_aggregated_report, next_span_id, call, raised, exported, popped,
          opened, nested, closes, last_closes, annotation_calls, args,
          blocks, exception, GLOBAL_SW, registries, stopwatches, threads,
          returned, formatted, last_is_live>>

timer_vars == <<blocks, exception>>

global_vars == <<GLOBAL_SW, registries, stopwatches, threads, returned>>

format_vars == <<formatted>>

export_vars == <<last_is_live>>

----------------------------------------------------------------------------
(* Bounds of the model *)

MaxSpans == 3          \* start() is called at most this many times
MaxAnnotatedSpans == 2 \* ... of them by the caller that also annotates
MaxAnnotations == 2    \* add_annotation, add_span_annotation and add_slow_annotation calls
MaxArgSpans == 3       \* start() calls of the caller whose arguments are recorded
MaxTimerSpans == 3     \* timer() blocks entered by the caller that uses timer()

MaxGlobalCalls == 2    \* global_sw() calls made by each thread
MaxRegistries == 2     \* global_sw_init() calls that succeed
MaxFmtSpans == 3       \* start() calls of the caller that formats its reports
MaxExportSpans == 3    \* start() calls of the caller whose callbacks may raise
MaxExportAnnotations == 1 \* ... and its add_annotation and add_span_annotation calls

Threads == {1, 2}      \* the threads that call global_sw()

(* Inputs *)

Names == {"", "a", "b"}
Times == {0, 1}
Buckets == {"BUCKET_A"}
AnnotatedNames == {"a"}
ArgNames == {"a"}
TimerNames == {"a"}
ExceptionTypes == {"SpecialError", "KeyboardInterrupt"}
AnnotationKeys == {"Cooltag"}
AnnotationTimes == {0}
SlowTagNames == {"Slowtag"}
TimeFuncs == {"fake_clock"}
ExportFuncs == {"export_mock"}
FmtNames == {"a", "b"}
ExportNames == {"a", "b"}
ExportStartTimes == {0}
ExportEndTimes == {1}
FmtStartTimes == {0}
FmtEndTimes == {1, 2, 3}
TimeLimits == {0, 1}
MaxTracingChoices == {1}
MinTracingChoices == {1000}

(* Python values *)

None == -1
NoName == "<None>"
NoBucket == "<None>"
NoError == "<no exception>"
NoReport == <<>>
NoArgs == <<>>
Report(r) == <<r>>
EmptyDict == <<>>
Falsy(x) == x = None \/ x = 0
Max(a, b) == IF a >= b THEN a ELSE b
Last(s) == s[Len(s)]
Front(s) == SubSeq(s, 1, Len(s) - 1)

MsPerSecond == 1000
UnitsPerMs == 1000

----------------------------------------------------------------------------
(* TimerData.__init__ *)
TimerData(name, start_time, parent_name, span_id) ==
    [span_id |-> span_id,
     name |-> name,
     start_time |-> start_time,
     end_time |-> None,
     trace_annotations |-> <<>>,
     parent_span_id |-> None,
     log_name |-> IF parent_name # NoName /\ parent_name # ""
                  THEN parent_name \o "#" \o name
                  ELSE name]

TraceAnnotation(key, value, time) == [key |-> key, value |-> value, time |-> time]

(* _should_trace_timer refusing a duration equal to the minimum *)
should_trace_timer_strictly_longer(values, log_name, delta_ms) ==
    IF delta_ms <= TRACING_MIN_NUM_MILLISECONDS * UnitsPerMs
    THEN FALSE
    ELSE \/ log_name \notin DOMAIN values
         \/ values[log_name][2] <= MAX_REQUEST_TRACING_SPANS_FOR_PATH

(* _should_trace_timer with the cap off by one *)
should_trace_timer_one_more(values, log_name, delta_ms) ==
    IF delta_ms < TRACING_MIN_NUM_MILLISECONDS * UnitsPerMs
    THEN FALSE
    ELSE \/ log_name \notin DOMAIN values
         \/ values[log_name][2] <= MAX_REQUEST_TRACING_SPANS_FOR_PATH + 1

(* StopWatch._should_trace_timer, reading the table `values` *)
should_trace_timer(values, log_name, delta_ms) ==
    IF delta_ms < TRACING_MIN_NUM_MILLISECONDS * UnitsPerMs
    THEN FALSE
    ELSE \/ log_name \notin DOMAIN values
         \/ values[log_name][2] <= MAX_REQUEST_TRACING_SPANS_FOR_PATH

(* The loop of StopWatch.end giving up after one more pop *)
pop_until_once(name, tr_data, stack) ==
    IF name # tr_data.name /\ stack # <<>>
    THEN [tr_data |-> Last(stack), stack |-> Front(stack)]
    ELSE [tr_data |-> tr_data, stack |-> stack]

(* The loop of StopWatch.end that pops until the name matches: tr_data is the
   span popped last, stack what is left below it *)
RECURSIVE pop_until(_, _, _)
pop_until(name, tr_data, stack) ==
    IF name # tr_data.name /\ stack # <<>>
    THEN pop_until(name, Last(stack), Front(stack))
    ELSE [tr_data |-> tr_data, stack |-> stack]

(* elapsed_ms without the floor *)
elapsed_ms_unfloored(start_time, end_time) ==
    (end_time - start_time) * MsPerSecond * UnitsPerMs

(* tr_delta_ms of StopWatch.end, in thousandths of a millisecond *)
elapsed_ms(start_time, end_time) ==
    Max((end_time - start_time) * MsPerSecond * UnitsPerMs, 1)

(* aggregate with the bucket of the latest close *)
aggregate_last_bucket(values, log_name, tr_delta_ms, bucket) ==
    IF log_name \in DOMAIN values
    THEN [values EXCEPT ![log_name] = <<@[1] + tr_delta_ms, @[2] + 1, bucket>>]
    ELSE (log_name :> <<tr_delta_ms, 1, bucket>>) @@ values

(* aggregate with the count of a known log_name left as it was *)
aggregate_count_kept(values, log_name, tr_delta_ms, bucket) ==
    IF log_name \in DOMAIN values
    THEN [values EXCEPT ![log_name] = <<@[1] + tr_delta_ms, @[2], @[3]>>]
    ELSE (log_name :> <<tr_delta_ms, 1, bucket>>) @@ values

(* aggregate with the duration of a known log_name overwritten, not summed *)
aggregate_overwriting(values, log_name, tr_delta_ms, bucket) ==
    IF log_name \in DOMAIN values
    THEN [values EXCEPT ![log_name] = <<tr_delta_ms, @[2] + 1, @[3]>>]
    ELSE (log_name :> <<tr_delta_ms, 1, bucket>>) @@ values

(* The update of self._reported_values in StopWatch.end *)
aggregate(values, log_name, tr_delta_ms, bucket) ==
    IF log_name \in DOMAIN values
    THEN [values EXCEPT ![log_name] = <<@[1] + tr_delta_ms, @[2] + 1, @[3]>>]
    ELSE (log_name :> <<tr_delta_ms, 1, bucket>>) @@ values

(* self._slow_annotations[tag] = timelimit, on a dict that keeps insertion order *)
RECURSIVE dict_set(_, _, _)
dict_set(d, key, value) ==
    IF d = <<>> THEN <<[key |-> key, value |-> value]>>
    ELSE IF d[1].key = key THEN <<[key |-> key, value |-> value]>> \o Tail(d)
    ELSE <<d[1]>> \o dict_set(Tail(d), key, value)

(* slow_tags tagging only a root that took longer than the timelimit *)
RECURSIVE slow_tags_strictly_slower(_, _, _)
slow_tags_strictly_slower(rules, tr_delta_ms, end_time) ==
    IF rules = <<>> THEN <<>>
    ELSE (IF rules[1].value * MsPerSecond * UnitsPerMs < tr_delta_ms
          THEN <<TraceAnnotation(rules[1].key, "1", end_time)>>
          ELSE <<>>)
         \o slow_tags_strictly_slower(Tail(rules), tr_delta_ms, end_time)

(* The loop over self._slow_annotations.items() in StopWatch.end: the
   annotations of the rules whose timelimit (seconds) is at most the elapsed
   time *)
RECURSIVE slow_tags(_, _, _)
slow_tags(rules, tr_delta_ms, end_time) ==
    IF rules = <<>> THEN <<>>
    ELSE (IF rules[1].value * MsPerSecond * UnitsPerMs <= tr_delta_ms
          THEN <<TraceAnnotation(rules[1].key, "1", end_time)>>
          ELSE <<>>)
         \o slow_tags(Tail(rules), tr_delta_ms, end_time)

(* root_close_annotations without the test that the stack is empty *)
root_close_annotations_on_every_span(stack, tr_delta_ms, end_time) ==
    root_annotations \o slow_tags(slow_annotations, tr_delta_ms, end_time)

(* What StopWatch.end adds to tr_data.trace_annotations: the pending root
   annotations and the satisfied slow tags when `stack`, what is left after
   the pop, is empty; nothing otherwise *)
root_close_annotations(stack, tr_delta_ms, end_time) ==
    IF stack = <<>>
    THEN root_annotations \o slow_tags(slow_annotations, tr_delta_ms, end_time)
    ELSE <<>>

(* parent_span_id taking the span started last for the parent *)
parent_span_id_of_latest(stack) ==
    IF stack # <<>> THEN next_span_id - 1 ELSE None

(* parent_span_id taking the root of the stack for the parent *)
parent_span_id_of_root(stack) ==
    IF stack # <<>> THEN stack[1].span_id ELSE None

(* tr_data.parent_span_id as StopWatch.end sets it for a traced span, `stack`
   being what is left after the pop *)
parent_span_id(stack) ==
    IF stack # <<>> THEN Last(stack).span_id ELSE None

(* export_calls with the aggregation callback first *)
export_calls_swapped(traces, agg_report) ==
    <<[func |-> "export_aggregated_timers_func", arg |-> agg_report],
      [func |-> "export_tracing_func", arg |-> traces]>>

(* The two callbacks StopWatch.end invokes at root completion, in order *)
export_calls(traces, agg_report) ==
    <<[func |-> "export_tracing_func", arg |-> traces],
      [func |-> "export_aggregated_timers_func", arg |-> agg_report]>>

(* _reset that keeps the slow-annotation rules *)
reset_keeping_rules ==
    /\ reported_values' = EmptyDict
    /\ reported_traces' = <<>>
    /\ root_annotations' = <<>>
    /\ slow_annotations' = slow_annotations

(* StopWatch._reset (the stack is empty wherever end() calls it) *)
reset ==
    /\ reported_values' = EmptyDict
    /\ reported_traces' = <<>>
    /\ root_annotations' = <<>>
    /\ slow_annotations' = <<>>

----------------------------------------------------------------------------
(* StopWatch.__init__ *)
Init ==
    /\ timer_stack = <<>>
    /\ strict_assert \in BOOLEAN
    /\ MAX_REQUEST_TRACING_SPANS_FOR_PATH \in MaxTracingChoices
    /\ TRACING_MIN_NUM_MILLISECONDS \in MinTracingChoices
    /\ reported_values = EmptyDict
    /\ reported_traces = <<>>
    /\ root_annotations = <<>>
    /\ slow_annotations = <<>>
    /\ last_trace_report = NoReport
    /\ last_aggregated_report = NoReport
    /\ next_span_id = 1
    /\ call = [op |-> "__init__", name |-> NoName]
    /\ raised = NoError
    /\ exported = <<>>
    /\ popped = <<>>
    /\ opened = <<>>
    /\ nested = TRUE
    /\ closes = <<>>
    /\ last_closes = <<>>
    /\ annotation_calls = 0
    /\ args = NoArgs
    /\ blocks = <<>>
    /\ exception = NoError
    /\ GLOBAL_SW = None
    /\ registries = <<>>
    /\ stopwatches = <<>>
    /\ threads = [t \in Threads |-> [pc |-> "idle", registry |-> None, calls |-> 0]]
    /\ returned = {}
    /\ formatted = NoReport
    /\ last_is_live = FALSE

config_vars == <<strict_assert, MAX_REQUEST_TRACING_SPANS_FOR_PATH,
                 TRACING_MIN_NUM_MILLISECONDS>>

(* StopWatch.start(name, start_time); now is what self._time_func() returns *)
start(name, start_time, now) ==
    /\ next_span_id <= MaxSpans
    /\ timer_stack' = Append(timer_stack,
           TimerData(name,
                     IF start_time = None THEN now ELSE start_time,
                     IF timer_stack # <<>> THEN Last(timer_stack).log_name ELSE NoName,
                     next_span_id))
    /\ next_span_id' = next_span_id + 1
    /\ call' = [op |-> "start", name |-> name]
    /\ raised' = NoError
    /\ exported' = <<>>
    /\ popped' = <<>>
    /\ opened' = IF nested THEN Append(opened, name) ELSE opened
    /\ UNCHANGED <<config_vars, reported_values, reported_traces, root_annotations,
                   slow_annotations, last_trace_report, last_aggregated_report,
                   nested, closes, last_closes, annotation_calls>>

(* end() on an empty stack asserting whatever the mode *)
end_empty_asserting(name) ==
    /\ timer_stack = <<>>
    /\ popped' = <<>>
    /\ raised' = "AssertionError"
    /\ exported' = <<>>
    /\ UNCHANGED <<timer_stack, reported_values, reported_traces, root_annotations,
                   slow_annotations, last_trace_report, last_aggregated_report,
                   closes, last_closes>>

(* StopWatch.end called with an empty stack *)
end_empty(name) ==
    /\ timer_stack = <<>>
    /\ popped' = <<>>
    /\ raised' = IF strict_assert THEN "AssertionError" ELSE NoError
    /\ exported' = <<>>
    /\ UNCHANGED <<timer_stack, reported_values, reported_traces, root_annotations,
                   slow_annotations, last_trace_report, last_aggregated_report,
                   closes, last_closes>>

(* StopWatch.end in strict mode when the popped span has another name: the
   assertion fails after the pop *)
end_mismatch(name) ==
    /\ timer_stack # <<>>
    /\ strict_assert /\ Last(timer_stack).name # name
    /\ timer_stack' = Front(timer_stack)
    /\ popped' = <<Last(timer_stack).name>>
    /\ raised' = "AssertionError"
    /\ exported' = <<>>
    /\ UNCHANGED <<reported_values, reported_traces, root_annotations,
                   slow_annotations, last_trace_report, last_aggregated_report,
                   closes, last_closes>>

(* StopWatch.end past the assertion *)
end_close(name, end_time, bucket, now) ==
    /\ timer_stack # <<>>
    /\ ~strict_assert \/ Last(timer_stack).name = name
    /\ LET found == pop_until(name, Last(timer_stack), Front(timer_stack))
           stack == found.stack
           stamp == IF Falsy(end_time) THEN now ELSE end_time
           log_name == found.tr_data.log_name
           tr_delta_ms == elapsed_ms(found.tr_data.start_time, stamp)
           values == aggregate(reported_values, log_name, tr_delta_ms, bucket)
           annotated == [found.tr_data EXCEPT
                            !.end_time = stamp,
                            !.trace_annotations =
                                @ \o root_close_annotations(stack, tr_delta_ms, stamp)]
           traced == should_trace_timer(values, log_name, tr_delta_ms)
           tr_data == IF traced
                      THEN [annotated EXCEPT !.parent_span_id = parent_span_id(stack)]
                      ELSE annotated
           traces == IF traced THEN Append(reported_traces, tr_data)
                     ELSE reported_traces
           agg_report == [aggregated_values |-> values, root_timer_data |-> tr_data]
           closed == Append(closes, [span_id |-> tr_data.span_id,
                                     log_name |-> log_name,
                                     tr_delta_ms |-> tr_delta_ms,
                                     count |-> values[log_name][2],
                                     bucket |-> bucket,
                                     trace_annotations |-> tr_data.trace_annotations])
       IN /\ timer_stack' = stack
          /\ popped' = [i \in 1 .. Len(timer_stack) - Len(stack) |->
                          timer_stack[Len(timer_stack) - i + 1].name]
          /\ raised' = NoError
          /\ IF stack = <<>>
             THEN /\ last_trace_report' = Report(traces)
                  /\ last_aggregated_report' = Report(agg_report)
                  /\ exported' = export_calls(traces, agg_report)
                  /\ reset
                  /\ closes' = <<>>
                  /\ last_closes' = closed
             ELSE /\ reported_values' = values
                  /\ reported_traces' = traces
                  /\ exported' = <<>>
                  /\ closes' = closed
                  /\ UNCHANGED <<root_annotations, slow_annotations, last_trace_report,
                                 last_aggregated_report, last_closes>>

(* StopWatch.end(name, end_time, bucket) *)
end(name, end_time, bucket, now) ==
    /\ \/ end_empty(name)
       \/ end_mismatch(name)
       \/ end_close(name, end_time, bucket, now)
    /\ call' = [op |-> "end", name |-> name]
    /\ nested' = (nested /\ opened # <<>> /\ Last(opened) = name)
    /\ opened' = IF nested' THEN Front(opened) ELSE <<>>
    /\ UNCHANGED <<config_vars, next_span_id, annotation_calls>>

(* The callbacks StopWatch.end has invoked when the one numbered `failing`
   raises; 0 when both return *)
export_calls_until(traces, agg_report, failing) ==
    IF failing = 0 THEN export_calls(traces, agg_report)
    ELSE SubSeq(export_calls(traces, agg_report), 1, failing)

(* StopWatch.end past the assertion, with callbacks that may raise.  Lines
   284-285 store the list self._reported_traces and a report holding the dict
   self._reported_values themselves, not copies; _reset gives end() a new
   dict and a new list, and a callback that raises leaves before _reset. *)
end_close_exporting(name, end_time, bucket, now, failing) ==
    /\ timer_stack # <<>>
    /\ ~strict_assert \/ Last(timer_stack).name = name
    /\ LET found == pop_until(name, Last(timer_stack), Front(timer_stack))
           stack == found.stack
           stamp == IF Falsy(end_time) THEN now ELSE end_time
           log_name == found.tr_data.log_name
           tr_delta_ms == elapsed_ms(found.tr_data.start_time, stamp)
           values == aggregate(reported_values, log_name, tr_delta_ms, bucket)
           annotated == [found.tr_data EXCEPT
                            !.end_time = stamp,
                            !.trace_annotations =
                                @ \o root_close_annotations(stack, tr_delta_ms, stamp)]
           traced == should_trace_timer(values, log_name, tr_delta_ms)
           tr_data == IF traced
                      THEN [annotated EXCEPT !.parent_span_id = parent_span_id(stack)]
                      ELSE annotated
           traces == IF traced THEN Append(reported_traces, tr_data)
                     ELSE reported_traces
           agg_report == [aggregated_values |-> values, root_timer_data |-> tr_data]
           closed == Append(closes, [span_id |-> tr_data.span_id,
                                     log_name |-> log_name,
                                     tr_delta_ms |-> tr_delta_ms,
                                     count |-> values[log_name][2],
                                     bucket |-> bucket,
                                     trace_annotations |-> tr_data.trace_annotations])
       IN /\ failing # 0 => stack = <<>>
          /\ timer_stack' = stack
          /\ popped' = [i \in 1 .. Len(timer_stack) - Len(stack) |->
                          timer_stack[Len(timer_stack) - i + 1].name]
          /\ IF stack = <<>>
             THEN /\ last_trace_report' = Report(traces)
                  /\ last_aggregated_report' = Report(agg_report)
                  /\ exported' = export_calls_until(traces, agg_report, failing)
                  /\ last_closes' = closed
                  /\ IF failing = 0
                     THEN /\ raised' = NoError
                          /\ reset
                          /\ closes' = <<>>
                          /\ last_is_live' = FALSE
                     ELSE /\ raised' = "CallbackError"
                          /\ reported_values' = values
                          /\ reported_traces' = traces
                          /\ closes' = closed
                          /\ last_is_live' = TRUE
                          /\ UNCHANGED <<root_annotations, slow_annotations>>
             ELSE /\ raised' = NoError
                  /\ reported_values' = values
                  /\ reported_traces' = traces
                  /\ exported' = <<>>
                  /\ closes' = closed
                  /\ last_trace_report' =
                        IF last_is_live THEN Report(traces) ELSE last_trace_report
                  /\ last_aggregated_report' =
                        IF last_is_live
                        THEN Report([last_aggregated_report[1] EXCEPT
                                        !.aggregated_values = values])
                        ELSE last_aggregated_report
                  /\ UNCHANGED <<root_annotations, slow_annotations, last_closes,
                                 last_is_live>>

(* StopWatch.end(name, end_time, bucket), with callbacks that may raise *)
end_exporting(name, end_time, bucket, now, failing) ==
    /\ \/ failing = 0 /\ end_empty(name) /\ UNCHANGED last_is_live
       \/ failing = 0 /\ end_mismatch(name) /\ UNCHANGED last_is_live
       \/ end_close_exporting(name, end_time, bucket, now, failing)
    /\ call' = [op |-> "end", name |-> name]
    /\ nested' = (nested /\ opened # <<>> /\ Last(opened) = name)
    /\ opened' = IF nested' THEN Front(opened) ELSE <<>>
    /\ UNCHANGED <<config_vars, next_span_id, annotation_calls>>

(* StopWatch.add_annotation(key, value, event_time) *)
add_annotation(key, value, event_time, now) ==
    /\ root_annotations' = Append(root_annotations,
           TraceAnnotation(key, value, IF event_time = None THEN now ELSE event_time))
    /\ call' = [op |-> "add_annotation", name |-> key]
    /\ raised' = NoError
    /\ exported' = <<>>
    /\ popped' = <<>>
    /\ UNCHANGED <<config_vars, timer_stack, reported_values, reported_traces,
                   slow_annotations, last_trace_report, last_aggregated_report,
                   next_span_id, opened, nested, closes, last_closes>>

(* add_span_annotation annotating the bottom span of the stack *)
add_span_annotation_on_root(key, value, event_time, now) ==
    /\ IF timer_stack = <<>>
       THEN /\ raised' = "IndexError"
            /\ UNCHANGED timer_stack
       ELSE /\ raised' = NoError
            /\ timer_stack' = [timer_stack EXCEPT ![1].trace_annotations =
                   Append(@, TraceAnnotation(key, value,
                                 IF event_time = None THEN now ELSE event_time))]
    /\ call' = [op |-> "add_span_annotation", name |-> key]
    /\ exported' = <<>>
    /\ popped' = <<>>
    /\ UNCHANGED <<config_vars, reported_values, reported_traces, root_annotations,
                   slow_annotations, last_trace_report, last_aggregated_report,
                   next_span_id, opened, nested, closes, last_closes>>

(* StopWatch.add_span_annotation(key, value, event_time) *)
add_span_annotation(key, value, event_time, now) ==
    /\ IF timer_stack = <<>>
       THEN /\ raised' = "IndexError"
            /\ UNCHANGED timer_stack
       ELSE /\ raised' = NoError
            /\ timer_stack' = [timer_stack EXCEPT ![Len(timer_stack)].trace_annotations =
                   Append(@, TraceAnnotation(key, value,
                                 IF event_time = None THEN now ELSE event_time))]
    /\ call' = [op |-> "add_span_annotation", name |-> key]
    /\ exported' = <<>>
    /\ popped' = <<>>
    /\ UNCHANGED <<config_vars, reported_values, reported_traces, root_annotations,
                   slow_annotations, last_trace_report, last_aggregated_report,
                   next_span_id, opened, nested, closes, last_closes>>

(* StopWatch.add_slow_annotation(tag, timelimit) *)
add_slow_annotation(tag, timelimit) ==
    /\ slow_annotations' = dict_set(slow_annotations, tag, timelimit)
    /\ call' = [op |-> "add_slow_annotation", name |-> tag]
    /\ raised' = NoError
    /\ exported' = <<>>
    /\ popped' = <<>>
    /\ UNCHANGED <<config_vars, timer_stack, reported_values, reported_traces,
                   root_annotations, last_trace_report, last_aggregated_report,
                   next_span_id, opened, nested, closes, last_closes>>

(* What self._time_func() returns when a call consults it; None when the
   call does not *)
Clock(consulted) == IF consulted THEN Times ELSE {None}

----------------------------------------------------------------------------
(* StopWatch.timer, a context manager: the caller enters the block, runs its
   body and leaves it, normally or with an exception *)

(* `except Exception` catches the exception types that derive from Exception *)
IsException(type) == type # "KeyboardInterrupt"

(* Entering the block: timer() up to its yield *)
timer_enter(name, bucket, start_time, end_time, now) ==
    /\ exception = NoError
    /\ start(name, start_time, now)
    /\ blocks' = Append(blocks, [name |-> name, bucket |-> bucket,
                                 end_time |-> end_time,
                                 depth |-> Len(timer_stack), handled |-> FALSE])
    /\ UNCHANGED exception

(* The except clause of timer(): the body has raised an Exception *)
timer_except(now) ==
    /\ blocks # <<>>
    /\ exception # NoError /\ IsException(exception)
    /\ ~Last(blocks).handled
    /\ add_annotation("Exception", exception, Last(blocks).end_time, now)
    /\ blocks' = [blocks EXCEPT ![Len(blocks)].handled = TRUE]
    /\ UNCHANGED <<exception, annotation_calls>>

(* timer_finally swallowing the exception *)
timer_finally_suppressing(now) ==
    /\ blocks # <<>>
    /\ exception = NoError \/ Last(blocks).handled \/ ~IsException(exception)
    /\ end(Last(blocks).name, Last(blocks).end_time, Last(blocks).bucket, now)
    /\ blocks' = Front(blocks)
    /\ exception' = NoError

(* The finally clause of timer(): the body has returned, or has raised and
   the except clause, if it applies, has run; the exception in flight, if
   any, propagates unless end() raises another *)
timer_finally(now) ==
    /\ blocks # <<>>
    /\ exception = NoError \/ Last(blocks).handled \/ ~IsException(exception)
    /\ end(Last(blocks).name, Last(blocks).end_time, Last(blocks).bucket, now)
    /\ blocks' = Front(blocks)
    /\ exception' = IF raised' # NoError THEN raised' ELSE exception

----------------------------------------------------------------------------
(* The caller: start and end with any name and time, no bucket *)

Start == \E name \in Names, start_time \in Times \cup {None} :
            \E now \in Clock(start_time = None) :
               /\ start(name, start_time, now)
               /\ UNCHANGED <<args, timer_vars, global_vars, format_vars, export_vars>>

End == \E name \in Names, end_time \in Times \cup {None} :
            \E now \in Clock(timer_stack # <<>> /\ Falsy(end_time)) :
               /\ end(name, end_time, NoBucket, now)
               /\ UNCHANGED <<args, timer_vars, global_vars, format_vars, export_vars>>

Next == \/ Start
        \/ End

Spec == Init /\ [][Next]_vars

----------------------------------------------------------------------------
(* The caller that also annotates: spans named from AnnotatedNames, at most
   MaxAnnotatedSpans of them *)

AnnStart == \E name \in AnnotatedNames, start_time \in Times \cup {None} :
            \E now \in Clock(start_time = None) :
               /\ next_span_id <= MaxAnnotatedSpans
               /\ start(name, start_time, now)
               /\ args' = NoArgs
               /\ UNCHANGED <<timer_vars, global_vars, format_vars, export_vars>>

AnnEnd == \E name \in AnnotatedNames, end_time \in Times \cup {None} :
            \E now \in Clock(timer_stack # <<>> /\ Falsy(end_time)) :
               /\ end(name, end_time, NoBucket, now)
               /\ args' = NoArgs
               /\ UNCHANGED <<timer_vars, global_vars, format_vars, export_vars>>

AddAnnotation ==
    /\ annotation_calls < MaxAnnotations
    /\ annotation_calls' = annotation_calls + 1
    /\ \E key \in AnnotationKeys, event_time \in AnnotationTimes \cup {None} :
          \E now \in Clock(event_time = None) :
             /\ add_annotation(key, "1", event_time, now)
             /\ args' = NoArgs
             /\ UNCHANGED <<timer_vars, global_vars, format_vars, export_vars>>

AddSpanAnnotation ==
    /\ annotation_calls < MaxAnnotations
    /\ annotation_calls' = annotation_calls + 1
    /\ \E key \in AnnotationKeys, event_time \in AnnotationTimes \cup {None} :
          \E now \in Clock(event_time = None) :
             /\ add_span_annotation(key, "1", event_time, now)
             /\ args' = NoArgs
             /\ UNCHANGED <<timer_vars, global_vars, format_vars, export_vars>>

AddSlowAnnotation ==
    /\ annotation_calls < MaxAnnotations
    /\ annotation_calls' = annotation_calls + 1
    /\ \E tag \in SlowTagNames, timelimit \in TimeLimits :
          /\ add_slow_annotation(tag, timelimit)
          /\ args' = [timelimit |-> timelimit]
          /\ UNCHANGED <<timer_vars, global_vars, format_vars, export_vars>>

NextAnnotations == \/ AnnStart
                   \/ AnnEnd
                   \/ AddAnnotation
                   \/ AddSpanAnnotation
                   \/ AddSlowAnnotation

SpecAnnotations == Init /\ [][NextAnnotations]_vars

----------------------------------------------------------------------------
(* The caller whose arguments are recorded: start and end with any time and
   bucket; args.now is what self._time_func() returned in the call, None if
   the call did not consult it *)

ArgStart == \E name \in ArgNames, start_time \in Times \cup {None} :
            \E now \in Clock(start_time = None) :
               /\ next_span_id <= MaxArgSpans
               /\ start(name, start_time, now)
               /\ args' = [start_time |-> start_time, now |-> now]
               /\ UNCHANGED <<timer_vars, global_vars, format_vars, export_vars>>

ArgEnd == \E name \in ArgNames, end_time \in Times \cup {None},
             bucket \in Buckets \cup {NoBucket} :
            \E now \in Clock(timer_stack # <<>> /\ Falsy(end_time)) :
               /\ end(name, end_time, bucket, now)
               /\ args' = [end_time |-> end_time, bucket |-> bucket, now |-> now]
               /\ UNCHANGED <<timer_vars, global_vars, format_vars, export_vars>>

NextArgs == \/ ArgStart
            \/ ArgEnd

SpecArgs == Init /\ [][NextArgs]_vars

----------------------------------------------------------------------------
(* The caller that uses timer(): bodies that enter further timer() blocks,
   raise, catch what an inner block let through, or return *)

(* format_report.  The span names of the reports that are formatted are one
   character long, so that a log_name is its names with "#" between them and
   Python's order on strings is the lexicographic order on these characters *)
LogPaths == UNION {[1 .. n -> FmtNames] : n \in 1 .. MaxFmtSpans}

RECURSIVE join(_)
join(cs) == IF cs = <<>> THEN "" ELSE cs[1] \o join(Tail(cs))

RECURSIVE path_chars(_)
path_chars(path) ==
    IF Len(path) = 1 THEN path ELSE <<path[1], "#">> \o path_chars(Tail(path))

(* The characters of a log_name *)
chars(log_name) ==
    path_chars(CHOOSE path \in LogPaths : join(path_chars(path)) = log_name)

ord(c) == CASE c = "#" -> 35
            [] c = "+" -> 43
            [] c = "a" -> 97
            [] c = "b" -> 98

(* x < y on Python strings *)
RECURSIVE str_lt(_, _)
str_lt(x, y) ==
    IF y = <<>> THEN FALSE
    ELSE IF x = <<>> THEN TRUE
    ELSE IF ord(x[1]) # ord(y[1]) THEN ord(x[1]) < ord(y[1])
    ELSE str_lt(Tail(x), Tail(y))

RECURSIVE sorted(_)
sorted(log_names) ==
    IF log_names = {} THEN <<>>
    ELSE LET first == CHOOSE m \in log_names :
                         \A o \in log_names \ {m} : str_lt(chars(m), chars(o))
         IN <<first>> \o sorted(log_names \ {first})

(* s.count(c) *)
RECURSIVE count(_, _)
count(cs, c) ==
    IF cs = <<>> THEN 0
    ELSE (IF cs[1] = c THEN 1 ELSE 0) + count(Tail(cs), c)

(* s[s.rfind("#") + 1:] *)
RECURSIVE after_last_separator(_)
after_last_separator(cs) ==
    IF count(cs, "#") = 0 THEN cs ELSE after_last_separator(Tail(cs))

(* sorted() of annotation keys, from their rank in Python's order *)
key_rank(key) == CASE key = "Cooltag" -> 1
                   [] key = "Exception" -> 2
                   [] key = "Slowtag" -> 3

RECURSIVE sorted_keys(_)
sorted_keys(annotations) ==
    IF annotations = <<>> THEN <<>>
    ELSE LET k == CHOOSE k \in DOMAIN annotations :
                     \A o \in DOMAIN annotations :
                        key_rank(annotations[k].key) <= key_rank(annotations[o].key)
             rest == [j \in 1 .. Len(annotations) - 1 |->
                         IF j < k THEN annotations[j] ELSE annotations[j + 1]]
         IN <<annotations[k].key>> \o sorted_keys(rest)

(* "%.f" of n / d cut off below the decimal point *)
format_f_truncating(n, d) == n \div d

(* "%.f" of n / d: the nearest integer, the even one when n / d lies exactly
   half way between two *)
format_f(n, d) ==
    LET q == n \div d
        r == n % d
    IN IF 2 * r > d THEN q + 1
       ELSE IF 2 * r = d THEN q + (q % 2)
       ELSE q

(* format_report(aggregated_report): the text as its lines; durations are in
   thousandths of a millisecond, as "%.3fms" prints them *)
format_report(aggregated_report) ==
    LET values == aggregated_report.aggregated_values
        root_tr_data == aggregated_report.root_timer_data
        log_names == sorted({log_name \in DOMAIN values :
                                count(chars(log_name), "+") = 0})
    IN IF log_names = <<>>
       THEN [returned |-> "None"]
       ELSE LET root == log_names[1]
                root_time_ms == values[root][1]
                root_count == values[root][2]
                line(log_name) ==
                    LET delta_ms == values[log_name][1]
                        bucket == values[log_name][3]
                        cs == chars(log_name)
                    IN [depth |-> count(SubSeq(cs, Len(chars(root)) + 1, Len(cs)), "#"),
                        bucket_name |-> IF bucket # NoBucket THEN bucket ELSE "",
                        short_name |-> join(after_last_separator(cs)),
                        count |-> values[log_name][2],
                        ms |-> delta_ms,
                        percent |-> format_f(delta_ms * 100, root_time_ms)]
            IN [returned |-> "str",
                root |-> [name |-> root,
                          ms |-> format_f(root_time_ms, root_count),
                          percent |-> 100],
                lines |-> [i \in 1 .. Len(log_names) - 1 |-> line(log_names[i + 1])],
                annotations |-> sorted_keys(root_tr_data.trace_annotations)]

(* StopWatch.format_last_report: before the first root has closed the last
   report is None, which has no attribute aggregated_values *)
format_last_report ==
    formatted' = IF last_aggregated_report = NoReport
                 THEN Report([returned |-> "AttributeError"])
                 ELSE Report(format_report(last_aggregated_report[1]))

(* stopwatch_global: the registry of one StopWatch per thread.  Callables are
   named by strings, NoFunc standing for an argument left at None. *)
NoFunc == "<None>"

(* What StopWatch.__init__ keeps of the arguments _GlobalSw.global_sw passes,
   the other parameters being left at their defaults; registry and thread
   record who built the object *)
StopWatch(registry, thread, export_aggregated_timers_func, time_func) ==
    [registry |-> registry,
     thread |-> thread,
     strict_assert |-> TRUE,
     export_tracing_func |-> "default_export_tracing",
     export_aggregated_timers_func |->
         IF export_aggregated_timers_func # NoFunc
         THEN export_aggregated_timers_func
         ELSE "default_export_aggregated_timers",
     time_func |-> IF time_func # NoFunc THEN time_func ELSE "time.time"]

(* _GlobalSw.__init__: threading.local() gives every thread its own, initially
   empty, namespace *)
GlobalSw(time_func, export_aggregated_timers_func) ==
    [threadlocal_sws |-> [t \in Threads |-> None],
     time_func |-> time_func,
     export_agg_timers_func |-> export_aggregated_timers_func]

hasattr_sw_never(registry, t) == FALSE

(* hasattr(self.threadlocal_sws, 'sw'), evaluated in thread t *)
hasattr_sw(registry, t) == registries[registry].threadlocal_sws[t] # None

global_sw_init(time_func, export_aggregated_timers_func) ==
    /\ GLOBAL_SW = None
    /\ registries' = Append(registries, GlobalSw(time_func, export_aggregated_timers_func))
    /\ GLOBAL_SW' = Len(registries) + 1
    /\ UNCHANGED <<stopwatches, threads, returned>>

global_sw_del ==
    /\ GLOBAL_SW # None
    /\ GLOBAL_SW' = None
    /\ UNCHANGED <<registries, stopwatches, threads, returned>>

(* The module function global_sw() in thread t: the assert reads _GLOBAL_SW;
   a failed assert ends the call *)
global_sw_assert(t) ==
    /\ threads[t].pc = "idle"
    /\ threads' = [threads EXCEPT ![t] =
                      IF GLOBAL_SW # None
                      THEN [@ EXCEPT !.pc = "call"]
                      ELSE [@ EXCEPT !.calls = @ + 1]]
    /\ UNCHANGED <<GLOBAL_SW, registries, stopwatches, returned>>

(* ... then the return statement reads _GLOBAL_SW again and calls its
   global_sw method; None has no such attribute *)
global_sw_call(t) ==
    /\ threads[t].pc = "call"
    /\ threads' = [threads EXCEPT ![t] =
                      IF GLOBAL_SW # None
                      THEN [@ EXCEPT !.pc = "hasattr", !.registry = GLOBAL_SW]
                      ELSE [@ EXCEPT !.pc = "idle", !.calls = @ + 1]]
    /\ UNCHANGED <<GLOBAL_SW, registries, stopwatches, returned>>

(* _GlobalSw.global_sw in thread t: the test *)
global_sw_hasattr(t) ==
    /\ threads[t].pc = "hasattr"
    /\ threads' = [threads EXCEPT ![t].pc =
                      IF hasattr_sw(threads[t].registry, t) THEN "return" ELSE "construct"]
    /\ UNCHANGED <<GLOBAL_SW, registries, stopwatches, returned>>

(* ... the construction and the assignment to the thread's own attribute *)
global_sw_construct(t) ==
    /\ threads[t].pc = "construct"
    /\ LET self == registries[threads[t].registry]
       IN stopwatches' = Append(stopwatches,
                                StopWatch(threads[t].registry, t,
                                          self.export_agg_timers_func, self.time_func))
    /\ registries' = [registries EXCEPT ![threads[t].registry].threadlocal_sws[t] =
                                            Len(stopwatches) + 1]
    /\ threads' = [threads EXCEPT ![t].pc = "return"]
    /\ UNCHANGED <<GLOBAL_SW, returned>>

(* ... and the return *)
global_sw_return(t) ==
    /\ threads[t].pc = "return"
    /\ returned' = returned \cup
                      {[thread |-> t, registry |-> threads[t].registry,
                        sw |-> registries[threads[t].registry].threadlocal_sws[t]]}
    /\ threads' = [threads EXCEPT ![t] = [pc |-> "idle", registry |-> None,
                                          calls |-> threads[t].calls + 1]]
    /\ UNCHANGED <<GLOBAL_SW, registries, stopwatches>>

stopwatch_vars == <<sw_vars, next_span_id, call, raised, exported, popped,
                    opened, nested, closes, last_closes, annotation_calls>>

TimerEnter == \E name \in TimerNames, start_time, end_time \in Times \cup {None} :
              \E now \in Clock(start_time = None) :
                 /\ next_span_id <= MaxTimerSpans
                 /\ timer_enter(name, NoBucket, start_time, end_time, now)
                 /\ UNCHANGED <<args, global_vars, format_vars, export_vars>>

BodyRaises == \E type \in ExceptionTypes :
                 /\ blocks # <<>>
                 /\ exception = NoError
                 /\ exception' = type
                 /\ UNCHANGED <<stopwatch_vars, blocks, args, global_vars, format_vars, export_vars>>

TimerExcept ==
    /\ blocks # <<>>
    /\ \E now \in Clock(Last(blocks).end_time = None) :
          /\ timer_except(now)
          /\ UNCHANGED <<args, global_vars, format_vars, export_vars>>

TimerFinally ==
    /\ blocks # <<>>
    /\ \E now \in Clock(timer_stack # <<>> /\ Falsy(Last(blocks).end_time)) :
          /\ timer_finally(now)
          /\ UNCHANGED <<args, global_vars, format_vars, export_vars>>

Catch == /\ exception # NoError
         /\ IF blocks = <<>> THEN TRUE ELSE ~Last(blocks).handled
         /\ exception' = NoError
         /\ UNCHANGED <<stopwatch_vars, blocks, args, global_vars, format_vars, export_vars>>

NextTimer == \/ TimerEnter
             \/ BodyRaises
             \/ TimerExcept
             \/ TimerFinally
             \/ Catch

SpecTimer == Init /\ [][NextTimer]_vars

(* The program that uses the registry: a main thread that initializes and
   deletes it, and threads that call global_sw() *)
GlobalSwInit == \E time_func \in TimeFuncs \cup {NoFunc},
                   export_aggregated_timers_func \in ExportFuncs \cup {NoFunc} :
                 /\ Len(registries) < MaxRegistries
                 /\ global_sw_init(time_func, export_aggregated_timers_func)
                 /\ UNCHANGED <<stopwatch_vars, args, timer_vars, format_vars, export_vars>>

GlobalSwDel == /\ global_sw_del
               /\ UNCHANGED <<stopwatch_vars, args, timer_vars, format_vars, export_vars>>

GlobalSwAssert == \E t \in Threads :
                    /\ threads[t].calls < MaxGlobalCalls
                    /\ global_sw_assert(t)
                    /\ UNCHANGED <<stopwatch_vars, args, timer_vars, format_vars, export_vars>>

GlobalSwCall == \E t \in Threads :
                  /\ global_sw_call(t)
                  /\ UNCHANGED <<stopwatch_vars, args, timer_vars, format_vars, export_vars>>

GlobalSwHasattr == \E t \in Threads :
                     /\ global_sw_hasattr(t)
                     /\ UNCHANGED <<stopwatch_vars, args, timer_vars, format_vars, export_vars>>

GlobalSwConstruct == \E t \in Threads :
                       /\ global_sw_construct(t)
                       /\ UNCHANGED <<stopwatch_vars, args, timer_vars, format_vars, export_vars>>

GlobalSwReturn == \E t \in Threads :
                    /\ global_sw_return(t)
                    /\ UNCHANGED <<stopwatch_vars, args, timer_vars, format_vars, export_vars>>

NextGlobal == \/ GlobalSwInit
              \/ GlobalSwDel
              \/ GlobalSwAssert
              \/ GlobalSwCall
              \/ GlobalSwHasattr
              \/ GlobalSwConstruct
              \/ GlobalSwReturn

SpecGlobal == Init /\ [][NextGlobal]_vars

(* The bucket the formatting program closes each span with *)
FmtBucketOf == [name \in FmtNames |-> IF name = "a" THEN "BUCKET_A" ELSE NoBucket]

(* The program that formats its reports: start and end with the times given,
   so that the clock is never read, spans named "a" closed with a bucket, and
   format_last_report between them;
   formatted is what the latest call returned, if it was format_last_report *)
FmtStart == \E name \in FmtNames, start_time \in FmtStartTimes :
              /\ next_span_id <= MaxFmtSpans
              /\ start(name, start_time, None)
              /\ formatted' = NoReport
              /\ UNCHANGED <<args, timer_vars, global_vars, export_vars>>

FmtEnd == \E name \in FmtNames, end_time \in FmtEndTimes :
            /\ end(name, end_time, FmtBucketOf[name], None)
            /\ formatted' = NoReport
            /\ UNCHANGED <<args, timer_vars, global_vars, export_vars>>

FormatLastReport == /\ formatted = NoReport
                    /\ format_last_report
                    /\ UNCHANGED <<stopwatch_vars, args, timer_vars, global_vars, export_vars>>

NextFormat == \/ FmtStart
              \/ FmtEnd
              \/ FormatLastReport

SpecFormat == Init /\ [][NextFormat]_vars

(* The caller whose callbacks may raise: a callback that raises ends the
   end() call that invoked it *)
ExportStart == \E name \in ExportNames, start_time \in ExportStartTimes :
                 /\ next_span_id <= MaxExportSpans
                 /\ start(name, start_time, None)
                 /\ UNCHANGED <<args, timer_vars, global_vars, format_vars, export_vars>>

ExportEnd == \E name \in ExportNames, end_time \in ExportEndTimes, failing \in 0 .. 2 :
               /\ end_exporting(name, end_time, NoBucket, None, failing)
               /\ UNCHANGED <<args, timer_vars, global_vars, format_vars>>

ExportAddAnnotation ==
    \E key \in AnnotationKeys, event_time \in AnnotationTimes :
       /\ annotation_calls < MaxExportAnnotations
       /\ annotation_calls' = annotation_calls + 1
       /\ add_annotation(key, "1", event_time, None)
       /\ UNCHANGED <<args, timer_vars, global_vars, format_vars, export_vars>>

ExportAddSpanAnnotation ==
    \E key \in AnnotationKeys, event_time \in AnnotationTimes :
       /\ annotation_calls < MaxExportAnnotations
       /\ annotation_calls' = annotation_calls + 1
       /\ add_span_annotation(key, "1", event_time, None)
       /\ UNCHANGED <<args, timer_vars, global_vars, format_vars, export_vars>>

NextExport == \/ ExportStart
              \/ ExportEnd
              \/ ExportAddAnnotation
              \/ ExportAddSpanAnnotation

SpecExport == Init /\ [][NextExport]_vars

----------------------------------------------------------------------------
(* Properties *)

(* The root in progress and the last completed root: the spans end() resolved
   to, the aggregation table and the trace buffer of each *)
Current ==
    [closes |-> closes, values |-> reported_values, traces |-> reported_traces]

Completed ==
    [closes |-> last_closes,
     values |-> last_aggregated_report[1].aggregated_values,
     traces |-> last_trace_report[1]]

Rounds == {Current} \cup (IF last_aggregated_report = NoReport THEN {} ELSE {Completed})

Ends(r, log_name) == {i \in DOMAIN r.closes : r.closes[i].log_name = log_name}

RECURSIVE SumDeltas(_, _)
SumDeltas(cl, log_name) ==
    IF cl = <<>> THEN 0
    ELSE (IF cl[1].log_name = log_name THEN cl[1].tr_delta_ms ELSE 0)
         + SumDeltas(Tail(cl), log_name)

StackNames == [i \in DOMAIN timer_stack |-> timer_stack[i].name]

(* C1: while every end() has named the innermost open span, the stack is
   empty iff the caller has no span open, and the table holds exactly the
   logPaths end() resolved to since the last reset, each with the number of
   ends that resolved to it *)
C1_StackAndCounts ==
    nested =>
       /\ (timer_stack = <<>>) <=> (opened = <<>>)
       /\ \A r \in Rounds :
             /\ DOMAIN r.values = {r.closes[i].log_name : i \in DOMAIN r.closes}
             /\ \A p \in DOMAIN r.values : r.values[p][2] = Cardinality(Ends(r, p))

C1_Witness ==
    /\ nested
    /\ timer_stack # <<>>
    /\ \E p \in DOMAIN reported_values : reported_values[p][2] = 2

(* C2: the stack is a chain of logPaths: the bottom span's logPath is its
   name, every other span's is the logPath below it, "#", its name *)
C2_LogPathChain ==
    \A i \in DOMAIN timer_stack :
        timer_stack[i].log_name =
            IF i = 1 THEN timer_stack[i].name
            ELSE timer_stack[i - 1].log_name \o "#" \o timer_stack[i].name

(* C3: every entry of the table holds the sum of the elapsed times and the
   number of the closes of its logPath *)
C3_Accumulate ==
    \A r \in Rounds : \A p \in DOMAIN r.values :
        /\ Ends(r, p) # {}
        /\ r.values[p][1] = SumDeltas(r.closes, p)
        /\ r.values[p][2] = Cardinality(Ends(r, p))

C3_Witness ==
    /\ timer_stack # <<>>
    /\ \E p \in DOMAIN reported_values :
          /\ reported_values[p][2] = 2
          /\ reported_values[p][1] = 1000001

(* C4 *)
MismatchedEnd ==
    /\ StackNames = <<"a", "b">>
    /\ call'.op = "end" /\ call'.name = "a"

(* C4: after start("a"), start("b"), end("a") pops "b" and "a",
   leaves the stack empty and, in strict mode, raises as well *)
C4_ResyncAndViolation ==
    [][MismatchedEnd =>
          /\ popped' = <<"b", "a">>
          /\ timer_stack' = <<>>
          /\ raised' = IF strict_assert THEN "AssertionError" ELSE NoError]_vars

(* What end("a") does after start("a"), start("b"): in lenient mode it pops
   "b" and "a" and leaves the stack empty; in strict mode it raises after
   popping "b" alone, and "a" stays on the stack (C4 holds of lenient mode) *)
C4_ResyncOrViolation ==
    [][MismatchedEnd =>
          IF strict_assert
          THEN /\ raised' = "AssertionError"
               /\ popped' = <<"b">>
               /\ timer_stack' = Front(timer_stack)
          ELSE /\ raised' = NoError
               /\ popped' = <<"b", "a">>
               /\ timer_stack' = <<>>]_vars

C4_Witness ==
    /\ strict_assert
    /\ call = [op |-> "end", name |-> "a"]
    /\ raised = "AssertionError"
    /\ popped = <<"b">>
    /\ StackNames = <<"a">>

(* C5: end() on an empty stack raises in strict mode and returns in lenient
   mode; either way it changes nothing of the stopwatch and invokes no
   callback *)
C5_EndOnEmptyStack ==
    [][(timer_stack = <<>> /\ call'.op = "end") =>
          /\ raised' = IF strict_assert THEN "AssertionError" ELSE NoError
          /\ exported' = <<>>
          /\ UNCHANGED sw_vars]_vars

C5_Witness ==
    /\ call.op = "end"
    /\ popped = <<>>
    /\ ~strict_assert
    /\ raised = NoError
    /\ last_aggregated_report # NoReport

(* An end() call empties the stack *)
EndEmptiesStack ==
    /\ call'.op = "end"
    /\ timer_stack # <<>>
    /\ timer_stack' = <<>>

(* C6: an end() call that empties the stack invokes the tracing callback and
   then the aggregation callback, once each, with the reports the getters
   return afterwards; an end() that leaves the stack non-empty invokes none *)
C6_CallbacksWhenStackEmptied ==
    [][/\ EndEmptiesStack =>
             /\ last_trace_report' # NoReport
             /\ last_aggregated_report' # NoReport
             /\ exported' =
                   <<[func |-> "export_tracing_func", arg |-> last_trace_report'[1]],
                     [func |-> "export_aggregated_timers_func",
                      arg |-> last_aggregated_report'[1]]>>
       /\ (call'.op = "end" /\ timer_stack' # <<>>) => exported' = <<>>]_vars

(* C7: an end() call that empties the stack leaves the table, the trace
   buffer, the pending root annotations and the slow rules empty, no other
   call removes anything from them, and every entry of a root's aggregated
   report comes from a span started under that root *)
C7_ResetWhenStackEmptied ==
    [][/\ EndEmptiesStack =>
             /\ reported_values' = EmptyDict
             /\ reported_traces' = <<>>
             /\ root_annotations' = <<>>
             /\ slow_annotations' = <<>>
       /\ (EndEmptiesStack /\ raised' = NoError) =>
             \A i \in DOMAIN last_closes' :
                last_closes'[i].span_id >=
                   last_aggregated_report'[1].root_timer_data.span_id
       /\ ~EndEmptiesStack =>
             /\ DOMAIN reported_values \subseteq DOMAIN reported_values'
             /\ reported_traces' # <<>> \/ reported_traces = <<>>
             /\ root_annotations' # <<>> \/ root_annotations = <<>>
             /\ slow_annotations' # <<>> \/ slow_annotations = <<>>]_vars

(* A root span completes: an end() call returns and has emptied the stack *)
RootCompletes ==
    /\ call'.op = "end"
    /\ raised' = NoError
    /\ timer_stack # <<>>
    /\ timer_stack' = <<>>

(* C6 holds of the calls that return: a call that completes a root invokes
   the tracing callback and then the aggregation callback, once each, with
   the reports the getters return afterwards; no other call invokes one *)
C6_Callbacks ==
    [][IF RootCompletes
       THEN exported' =
               <<[func |-> "export_tracing_func", arg |-> last_trace_report'[1]],
                 [func |-> "export_aggregated_timers_func",
                  arg |-> last_aggregated_report'[1]]>>
       ELSE exported' = <<>>]_vars

C6_Witness ==
    /\ Len(exported) = 2
    /\ Len(exported[1].arg) = 2
    /\ Cardinality(DOMAIN exported[2].arg.aggregated_values) = 3

IsPrefix(s, t) == Len(s) <= Len(t) /\ SubSeq(t, 1, Len(s)) = s

(* C7 holds of the calls that return: a call that completes a root leaves the
   table, the trace buffer, the pending root annotations and the slow rules
   empty, and the table it reports holds only logPaths closed since the reset
   before; no other call removes anything from the four *)
C7_ResetAtRootCompletion ==
    [][IF RootCompletes
       THEN /\ reported_values' = EmptyDict
            /\ reported_traces' = <<>>
            /\ root_annotations' = <<>>
            /\ slow_annotations' = <<>>
            /\ \A p \in DOMAIN last_aggregated_report'[1].aggregated_values :
                  \E i \in DOMAIN last_closes' : last_closes'[i].log_name = p
            /\ Len(last_closes') = Len(closes) + 1
       ELSE /\ DOMAIN reported_values \subseteq DOMAIN reported_values'
            /\ \A p \in DOMAIN reported_values :
                  reported_values'[p][2] >= reported_values[p][2]
            /\ IsPrefix(reported_traces, reported_traces')
            /\ IsPrefix(root_annotations, root_annotations')
            /\ {slow_annotations[i].key : i \in DOMAIN slow_annotations}
                  \subseteq {slow_annotations'[i].key : i \in DOMAIN slow_annotations'}]_vars

C7_Witness ==
    /\ call.op = "end" /\ raised = NoError /\ timer_stack = <<>>
    /\ last_aggregated_report # NoReport
    /\ last_aggregated_report[1].root_timer_data.span_id = 2
    /\ Len(last_aggregated_report[1].root_timer_data.trace_annotations) = 2
    /\ DOMAIN last_aggregated_report[1].aggregated_values = {"a"}
    /\ Len(last_trace_report[1]) = 1
    /\ reported_values = EmptyDict /\ reported_traces = <<>>
    /\ root_annotations = <<>> /\ slow_annotations = <<>>

TraceIds(r) == {r.traces[i].span_id : i \in DOMAIN r.traces}

LongEnough(delta_ms) == delta_ms >= TRACING_MIN_NUM_MILLISECONDS * UnitsPerMs

(* C8: a closed span is in the trace buffer iff its elapsed time is at least
   the minimum and the count of its logPath, this close included, is at most
   the maximum; no span in the buffer is shorter than the minimum *)
C8_TraceAdmission ==
    \A r \in Rounds :
       /\ TraceIds(r) \subseteq {r.closes[i].span_id : i \in DOMAIN r.closes}
       /\ \A i \in DOMAIN r.closes :
             r.closes[i].span_id \in TraceIds(r)
                <=> /\ LongEnough(r.closes[i].tr_delta_ms)
                    /\ r.closes[i].count <= MAX_REQUEST_TRACING_SPANS_FOR_PATH
       /\ \A i \in DOMAIN r.traces :
             LongEnough(Max((r.traces[i].end_time - r.traces[i].start_time)
                               * MsPerSecond * UnitsPerMs, 1))

C8_Witness ==
    \E r \in Rounds : \E i, j, k \in DOMAIN r.closes :
       /\ r.closes[i].span_id \in TraceIds(r)
       /\ r.closes[i].tr_delta_ms = TRACING_MIN_NUM_MILLISECONDS * UnitsPerMs
       /\ r.closes[j].span_id \notin TraceIds(r)
       /\ LongEnough(r.closes[j].tr_delta_ms)
       /\ r.closes[k].span_id \notin TraceIds(r)
       /\ ~LongEnough(r.closes[k].tr_delta_ms)

TracesOf(r, log_name) == {i \in DOMAIN r.traces : r.traces[i].log_name = log_name}

(* C9: the trace buffer never holds more than the maximum of spans of one
   logPath; a close that brings the count of its logPath beyond the maximum
   adds no span to it; and the count of a logPath is the number of its closes
   so far, whether they were traced or not *)
C9_TraceCap ==
    \A r \in Rounds :
       /\ \A p \in DOMAIN r.values :
             Cardinality(TracesOf(r, p)) <= MAX_REQUEST_TRACING_SPANS_FOR_PATH
       /\ \A i \in DOMAIN r.closes :
             /\ r.closes[i].count =
                   Cardinality({j \in 1 .. i : r.closes[j].log_name = r.closes[i].log_name})
             /\ r.closes[i].count > MAX_REQUEST_TRACING_SPANS_FOR_PATH
                   => r.closes[i].span_id \notin TraceIds(r)
       /\ \A p \in DOMAIN r.values : r.values[p][2] = Cardinality(Ends(r, p))

C9_Witness ==
    \E p \in DOMAIN reported_values :
       /\ reported_values[p][2] = MAX_REQUEST_TRACING_SPANS_FOR_PATH + 1
       /\ Cardinality(TracesOf(Current, p)) = MAX_REQUEST_TRACING_SPANS_FOR_PATH
       /\ \A i \in Ends(Current, p) : LongEnough(closes[i].tr_delta_ms)

(* The span a returning end() closed, as end() recorded it *)
ClosedSpan == LET done == IF timer_stack' = <<>> THEN last_closes' ELSE closes'
              IN done[Len(done)]

(* C10: end() adds the pending root annotations, in the order add_annotation
   queued them, and after them the tags of slow rules, to the span it closes
   if that span is the root, and adds nothing to any other span; the trace
   entry and the report carry the same list; add_annotation and
   add_slow_annotation touch no span, add_span_annotation touches the
   innermost open span only and not the pending root annotations *)
C10_RootAnnotationsOnRootOnly ==
    [][/\ (call'.op = "end" /\ raised' = NoError /\ timer_stack # <<>>) =>
             LET c == ClosedSpan
                 i == CHOOSE i \in DOMAIN timer_stack :
                         timer_stack[i].span_id = c.span_id
                 own == timer_stack[i].trace_annotations
                 added == SubSeq(c.trace_annotations, Len(own) + 1,
                                 Len(c.trace_annotations))
                 traces == IF timer_stack' = <<>> THEN last_trace_report'[1]
                           ELSE reported_traces'
             IN /\ IsPrefix(own, c.trace_annotations)
                /\ IF i = 1
                   THEN /\ timer_stack' = <<>>
                        /\ IsPrefix(root_annotations, added)
                        /\ \A k \in Len(root_annotations) + 1 .. Len(added) :
                              /\ added[k].value = "1"
                              /\ \E j \in DOMAIN slow_annotations :
                                    slow_annotations[j].key = added[k].key
                        /\ last_aggregated_report'[1].root_timer_data.trace_annotations
                              = c.trace_annotations
                   ELSE added = <<>>
                /\ \A t \in DOMAIN traces :
                      traces[t].span_id = c.span_id
                         => traces[t].trace_annotations = c.trace_annotations
       /\ call'.op \in {"add_annotation", "add_slow_annotation"} =>
             /\ timer_stack' = timer_stack
             /\ reported_traces' = reported_traces
       /\ call'.op = "add_annotation" =>
             /\ Front(root_annotations') = root_annotations
       /\ call'.op = "add_span_annotation" =>
             /\ root_annotations' = root_annotations
             /\ reported_traces' = reported_traces
             /\ timer_stack # <<>> =>
                   /\ Front(timer_stack') = Front(timer_stack)
                   /\ Front(Last(timer_stack').trace_annotations)
                         = Last(timer_stack).trace_annotations]_vars

C10_Witness ==
    /\ call.op = "end" /\ raised = NoError /\ timer_stack = <<>>
    /\ last_trace_report # NoReport
    /\ Len(last_trace_report[1]) = 2
    /\ Len(last_trace_report[1][1].trace_annotations) = 1
    /\ Len(last_trace_report[1][2].trace_annotations) = 1
    /\ last_trace_report[1][1].trace_annotations
          # last_trace_report[1][2].trace_annotations
    /\ last_trace_report[1][1].parent_span_id = last_trace_report[1][2].span_id

C10_SlowTagWitness ==
    /\ call.op = "end" /\ raised = NoError /\ timer_stack = <<>>
    /\ last_aggregated_report # NoReport
    /\ LET a == last_aggregated_report[1].root_timer_data.trace_annotations
       IN Len(a) = 2 /\ a[1].key = "Cooltag" /\ a[2].key = "Slowtag"

(* C11: when a root closes, each slow rule whose timelimit is at most the
   root's elapsed seconds adds exactly one annotation (tag, "1", the root's
   end_time) to the root, each other rule adds none, and nothing else is added
   after the pending root annotations; add_slow_annotation leaves exactly one
   rule for its tag, with the timelimit of this call, and the other rules as
   they were *)
C11_SlowRules ==
    [][/\ RootCompletes =>
             LET root == last_aggregated_report'[1].root_timer_data
                 before == Len(timer_stack[1].trace_annotations) + Len(root_annotations)
                 tail == SubSeq(root.trace_annotations, before + 1,
                                Len(root.trace_annotations))
                 elapsed == Max((root.end_time - root.start_time)
                                   * MsPerSecond * UnitsPerMs, 1)
             IN /\ \A j \in DOMAIN slow_annotations :
                      LET rule == slow_annotations[j]
                          hits == {k \in DOMAIN tail : tail[k].key = rule.key}
                      IN IF rule.value * MsPerSecond * UnitsPerMs <= elapsed
                         THEN /\ Cardinality(hits) = 1
                              /\ \A k \in hits :
                                    tail[k] = TraceAnnotation(rule.key, "1", root.end_time)
                         ELSE hits = {}
                /\ \A k \in DOMAIN tail :
                      \E j \in DOMAIN slow_annotations :
                         slow_annotations[j].key = tail[k].key
       /\ call'.op = "add_slow_annotation" =>
             /\ \E j \in DOMAIN slow_annotations' :
                   /\ slow_annotations'[j] =
                         [key |-> call'.name, value |-> args'.timelimit]
                   /\ \A i \in DOMAIN slow_annotations' :
                         slow_annotations'[i].key = call'.name => i = j
             /\ \A j \in DOMAIN slow_annotations :
                   slow_annotations[j].key # call'.name
                      => \E i \in DOMAIN slow_annotations' :
                            slow_annotations'[i] = slow_annotations[j]
             /\ Len(slow_annotations') <= Len(slow_annotations) + 1]_vars

C11_Witness ==
    /\ call.op = "end" /\ raised = NoError /\ timer_stack = <<>>
    /\ last_aggregated_report # NoReport
    /\ annotation_calls = 2 /\ next_span_id = 2
    /\ LET root == last_aggregated_report[1].root_timer_data
       IN /\ root.end_time - root.start_time = 1
          /\ root.trace_annotations = <<TraceAnnotation("Slowtag", "1", root.end_time)>>

(* The time a recorded end() call stamps on the span it closes: the clock's
   if the call consulted it, its end_time argument otherwise *)
Stamped == IF args'.now # None THEN args'.now ELSE args'.end_time

(* A recorded end() call closes a span *)
EndCloses == call'.op = "end" /\ raised' = NoError /\ timer_stack # <<>>

(* The table after the call: the one reported if the call completed a root *)
TableAfter == IF timer_stack' = <<>>
              THEN last_aggregated_report'[1].aggregated_values
              ELSE reported_values'

(* C12: end() adds max((end_time - start_time) * 1000, 0.001) ms to the entry
   of the span it closes, which is at least 0.001 ms whatever the two times;
   every entry has a duration of at least 0.001 ms and a count of at least 1 *)
C12_ElapsedFloor ==
    [][EndCloses =>
          LET c == ClosedSpan
              i == CHOOSE i \in DOMAIN timer_stack : timer_stack[i].span_id = c.span_id
              seconds == Stamped - timer_stack[i].start_time
              ms == IF seconds * MsPerSecond * UnitsPerMs >= 1
                    THEN seconds * MsPerSecond * UnitsPerMs ELSE 1
              was == IF c.log_name \in DOMAIN reported_values
                     THEN reported_values[c.log_name][1] ELSE 0
          IN /\ c.tr_delta_ms = ms
             /\ TableAfter[c.log_name][1] = was + ms
             /\ \A p \in DOMAIN TableAfter :
                   TableAfter[p][1] >= 1 /\ TableAfter[p][2] >= 1]_vars

C12_Witness ==
    /\ call.op = "end" /\ raised = NoError /\ timer_stack # <<>>
    /\ args.end_time = 0
    /\ \E p \in DOMAIN reported_values :
          /\ reported_values[p] = <<2, 2, NoBucket>>
          /\ \A i \in Ends(Current, p) : closes[i].tr_delta_ms = 1

(* C15: add_span_annotation appends one annotation, with the key and value of
   the call, to the span on top of the stack and changes nothing else; on an
   empty stack it raises, in either mode, and changes nothing *)
C15_SpanAnnotationOnTop ==
    [][call'.op = "add_span_annotation" =>
          IF timer_stack = <<>>
          THEN /\ raised' = "IndexError"
               /\ UNCHANGED sw_vars
          ELSE LET top == Last(timer_stack)
                   new == Last(timer_stack')
               IN /\ raised' = NoError
                  /\ Len(timer_stack') = Len(timer_stack)
                  /\ Front(timer_stack') = Front(timer_stack)
                  /\ new = [top EXCEPT !.trace_annotations = new.trace_annotations]
                  /\ Front(new.trace_annotations) = top.trace_annotations
                  /\ Last(new.trace_annotations).key = call'.name
                  /\ Last(new.trace_annotations).value = "1"
                  /\ UNCHANGED <<config_vars, reported_values, reported_traces,
                                 root_annotations, slow_annotations,
                                 last_trace_report, last_aggregated_report>>]_vars

C15_Witness ==
    /\ call.op = "add_span_annotation" /\ raised = NoError
    /\ Len(timer_stack) = 2
    /\ timer_stack[1].trace_annotations = <<>>
    /\ Len(timer_stack[2].trace_annotations) = 1

C15_EmptyStackWitness ==
    /\ call.op = "add_span_annotation" /\ raised = "IndexError"
    /\ ~strict_assert
    /\ timer_stack = <<>>
    /\ root_annotations # <<>>

(* The closes of a logPath since the last reset, oldest first *)
RECURSIVE ClosesOf(_, _)
ClosesOf(cl, log_name) ==
    IF cl = <<>> THEN <<>>
    ELSE (IF cl[1].log_name = log_name THEN <<cl[1]>> ELSE <<>>)
         \o ClosesOf(Tail(cl), log_name)

(* The first bucket given among closes, NoBucket if none gave one *)
RECURSIVE FirstBucketGiven(_)
FirstBucketGiven(cl) ==
    IF cl = <<>> THEN NoBucket
    ELSE IF cl[1].bucket # NoBucket THEN cl[1].bucket
    ELSE FirstBucketGiven(Tail(cl))

(* C16: the bucket of an entry is the first bucket that a close of its
   logPath supplied since the last reset *)
C16_FirstBucketGiven ==
    \A r \in Rounds : \A p \in DOMAIN r.values :
       r.values[p][3] = FirstBucketGiven(ClosesOf(r.closes, p))

(* C16 amended: the bucket of an entry is the bucket argument of the first
   close of its logPath since the last reset, none if that close gave none;
   later closes never change it *)
C16_BucketOfFirstClose ==
    \A r \in Rounds : \A p \in DOMAIN r.values :
       /\ ClosesOf(r.closes, p) # <<>>
       /\ r.values[p][3] = ClosesOf(r.closes, p)[1].bucket

C16_Witness ==
    \E p \in DOMAIN reported_values :
       /\ reported_values[p][3] = "BUCKET_A"
       /\ Len(ClosesOf(closes, p)) = 2
       /\ ClosesOf(closes, p)[2].bucket = NoBucket

(* C20: an end() call given an end_time stamps exactly that time on the span
   it closes and does not consult the clock; a call given none stamps the
   clock's time *)
C20_ExplicitEndTime ==
    [][(EndCloses /\ timer_stack' = <<>>) =>
          LET root == last_aggregated_report'[1].root_timer_data
          IN IF args'.end_time # None
             THEN /\ args'.now = None
                  /\ root.end_time = args'.end_time
             ELSE /\ args'.now # None
                  /\ root.end_time = args'.now]_vars

(* What the code does instead: the clock is consulted, and its time stamped,
   when end_time is None or 0, and only then *)
C20_FalsyEndTime ==
    [][(EndCloses /\ timer_stack' = <<>>) =>
          LET root == last_aggregated_report'[1].root_timer_data
          IN IF args'.end_time \notin {None, 0}
             THEN /\ args'.now = None
                  /\ root.end_time = args'.end_time
             ELSE /\ args'.now # None
                  /\ root.end_time = args'.now]_vars

C20_FalsyWitness ==
    /\ call.op = "end" /\ raised = NoError /\ timer_stack = <<>>
    /\ args.end_time = 0 /\ args.now = 1
    /\ last_aggregated_report[1].root_timer_data.end_time = 1

(* C17: a span end() admits to the trace buffer is appended after the spans
   admitted before it, with parent_span_id the span_id of the span on top of
   the stack after the pop, None if the stack is then empty; a span not
   admitted leaves the buffer as it was, and so does every other call *)
C17_TraceOrderAndParent ==
    [][IF EndCloses
       THEN LET c == ClosedSpan
                traces == IF timer_stack' = <<>> THEN last_trace_report'[1]
                          ELSE reported_traces'
            IN \/ traces = reported_traces
               \/ /\ Front(traces) = reported_traces
                  /\ Last(traces).span_id = c.span_id
                  /\ Last(traces).parent_span_id =
                        IF timer_stack' # <<>> THEN Last(timer_stack').span_id
                        ELSE None
       ELSE reported_traces' = reported_traces]_vars

C17_Witness ==
    /\ last_trace_report # NoReport
    /\ Len(last_trace_report[1]) = 3
    /\ last_trace_report[1][1].parent_span_id = last_trace_report[1][2].span_id
    /\ last_trace_report[1][2].parent_span_id = last_trace_report[1][3].span_id
    /\ last_trace_report[1][3].parent_span_id = None

(* C13: a timer() block is entered by start(name) and left, whether its body
   returned or raised, by end(name), which brings the stack back to the depth
   it had before the block; an exception in flight is still in flight after
   end() has run; nothing else the block does changes the depth *)
C13_TimerBalanced ==
    [][/\ Len(timer_stack) = Len(blocks)
       /\ Len(blocks') > Len(blocks) =>
             /\ call'.op = "start" /\ call'.name = Last(blocks').name
             /\ Len(timer_stack') = Last(blocks').depth + 1
       /\ Len(blocks') < Len(blocks) =>
             /\ call'.op = "end" /\ call'.name = Last(blocks).name
             /\ raised' = NoError
             /\ popped' = <<Last(blocks).name>>
             /\ Len(timer_stack') = Last(blocks).depth
             /\ exception' = exception
       /\ Len(blocks') = Len(blocks) => Len(timer_stack') = Len(timer_stack)]_vars

C13_Witness ==
    /\ call.op = "end" /\ raised = NoError
    /\ exception = "SpecialError"
    /\ Len(blocks) = 1 /\ Len(timer_stack) = 1
    /\ blocks[1].depth = 0
    /\ next_span_id = 3

(* C14: when a timer() block is left by an Exception, the span it closes
   carries an annotation with key 'Exception', value the type name and, if
   the block was given an end_time, that time *)
C14_ExceptionOnCurrentSpan ==
    [][(Len(blocks') < Len(blocks) /\ Last(blocks).handled /\ raised' = NoError) =>
          \E k \in DOMAIN ClosedSpan.trace_annotations :
             LET a == ClosedSpan.trace_annotations[k]
             IN /\ a.key = "Exception"
                /\ a.value = exception
                /\ Last(blocks).end_time # None => a.time = Last(blocks).end_time]_vars

(* What the code does instead: the except clause queues the annotation with
   the pending root annotations and touches no span; it reaches the root span
   when the root closes *)
C14_ExceptionOnRoot ==
    [][/\ (call'.op = "add_annotation" /\ call'.name = "Exception") =>
             /\ timer_stack' = timer_stack
             /\ Front(root_annotations') = root_annotations
             /\ Last(root_annotations').value = exception
             /\ Last(blocks).end_time # None =>
                   Last(root_annotations').time = Last(blocks).end_time
       /\ (Len(blocks') < Len(blocks) /\ raised' = NoError) =>
             IF timer_stack' = <<>>
             THEN ClosedSpan.trace_annotations = root_annotations
             ELSE ClosedSpan.trace_annotations = <<>>]_vars

C14_RootWitness ==
    /\ call.op = "end" /\ raised = NoError /\ timer_stack = <<>>
    /\ exception = "SpecialError"
    /\ last_aggregated_report # NoReport
    /\ Len(last_aggregated_report[1].root_timer_data.trace_annotations) = 2
    /\ Len(last_closes) = 2

(* C18: among the values global_sw() has returned from one registry, two
   calls of the same thread got the same instance and calls of different
   threads got different ones; no instance is ever returned to two threads;
   a registry builds at most one StopWatch per thread, and only in a call of
   that thread that returns it; every instance has the registry's time_func
   and export_aggregated_timers_func *)
C18_OnePerThread ==
    /\ \A r1, r2 \in returned :
          /\ (r1.registry = r2.registry /\ r1.thread = r2.thread) => r1.sw = r2.sw
          /\ r1.sw = r2.sw => r1.thread = r2.thread
    /\ \A i, j \in DOMAIN stopwatches :
          (stopwatches[i].registry = stopwatches[j].registry
             /\ stopwatches[i].thread = stopwatches[j].thread) => i = j
    /\ \A i \in DOMAIN stopwatches :
          LET sw == stopwatches[i]
              t == sw.thread
          IN \/ [thread |-> t, registry |-> sw.registry, sw |-> i] \in returned
             \/ threads[t].pc = "return" /\ threads[t].registry = sw.registry
    /\ \A r \in returned :
          LET sw == stopwatches[r.sw]
              self == registries[r.registry]
          IN /\ sw.registry = r.registry
             /\ sw.thread = r.thread
             /\ sw = StopWatch(r.registry, r.thread, self.export_agg_timers_func,
                               self.time_func)
             /\ self.time_func # NoFunc => sw.time_func = self.time_func
             /\ self.export_agg_timers_func # NoFunc =>
                   sw.export_aggregated_timers_func = self.export_agg_timers_func

C18_Witness ==
    /\ Len(registries) = 1
    /\ registries[1].time_func = "fake_clock"
    /\ registries[1].export_agg_timers_func = "export_mock"
    /\ threads[1].calls = 2 /\ threads[2].calls = 2
    /\ returned = {[thread |-> 1, registry |-> 1, sw |-> 2],
                   [thread |-> 2, registry |-> 1, sw |-> 1]}

(* The report format_last_report has just formatted, its table, the logPath
   of the root span it was captured with, and the logPath that comes first in
   Python's order, which is the one the root line is printed for *)
Formatted == formatted[1]
FormattedValues == last_aggregated_report[1].aggregated_values
FormattedRoot == last_aggregated_report[1].root_timer_data.log_name
FirstLogName == CHOOSE m \in DOMAIN FormattedValues :
                   \A o \in DOMAIN FormattedValues \ {m} : str_lt(chars(m), chars(o))

(* The line of the report for log_name: the lines follow the root line in
   the order of their logPaths *)
LineOf(log_name) ==
    LET cs == chars(log_name)
        k == CHOOSE k \in DOMAIN Formatted.lines :
                /\ Formatted.lines[k].ms = FormattedValues[log_name][1]
                /\ Formatted.lines[k].count = FormattedValues[log_name][2]
                /\ Formatted.lines[k].short_name = cs[Len(cs)]
                /\ k = Cardinality({o \in DOMAIN FormattedValues \ {FirstLogName} :
                                       o = log_name \/ str_lt(chars(o), cs)})
    IN Formatted.lines[k]

(* C19 as stated: the root line shows 100% and the line of every other
   logPath the whole percent p with p <= duration / root duration * 100 < p + 1 *)
C19_PercentTruncated ==
    (formatted # NoReport /\ Formatted.returned = "str") =>
        /\ Formatted.root.name = FormattedRoot
        /\ Formatted.root.percent = 100
        /\ \A log_name \in DOMAIN FormattedValues \ {FormattedRoot} :
              LET p == LineOf(log_name).percent
                  delta_ms == FormattedValues[log_name][1]
                  root_time_ms == FormattedValues[FormattedRoot][1]
              IN /\ p * root_time_ms <= delta_ms * 100
                 /\ delta_ms * 100 < (p + 1) * root_time_ms

(* C19 amended: the root line is the line of the first logPath in sorted
   order, which is the root span's logPath when every logPath of the snapshot
   lies below the root span's, and shows 100%; every other logPath has one
   line, which shows the whole percent p nearest to its duration / the root
   line's duration * 100 *)
C19_PercentRounded ==
    (formatted # NoReport /\ Formatted.returned = "str") =>
        /\ Formatted.root.name = FirstLogName
        /\ Formatted.root.percent = 100
        /\ (\A o \in DOMAIN FormattedValues :
               SubSeq(chars(o), 1, Len(chars(FormattedRoot))) = chars(FormattedRoot))
              => FirstLogName = FormattedRoot
        /\ Len(Formatted.lines) = Cardinality(DOMAIN FormattedValues) - 1
        /\ \A log_name \in DOMAIN FormattedValues \ {FirstLogName} :
              LET p == LineOf(log_name).percent
                  delta_ms == FormattedValues[log_name][1]
                  root_time_ms == FormattedValues[FirstLogName][1]
              IN /\ (2 * p - 1) * root_time_ms <= 2 * delta_ms * 100
                 /\ 2 * delta_ms * 100 <= (2 * p + 1) * root_time_ms

C19_Witness ==
    /\ formatted # NoReport /\ Formatted.returned = "str"
    /\ FirstLogName = FormattedRoot
    /\ FormattedValues[FormattedRoot][1] = 3 * MsPerSecond * UnitsPerMs
    /\ \E k \in DOMAIN Formatted.lines :
          /\ Formatted.lines[k].ms = 2 * MsPerSecond * UnitsPerMs
          /\ Formatted.lines[k].percent = 67
    /\ \E k \in DOMAIN Formatted.lines :
          /\ Formatted.lines[k].depth = 2
          /\ Formatted.lines[k].percent = 33

(* C21: the stack goes from non-empty to empty only in an end() call that
   closes the root span: the call records the logPath of the bottom span in
   the table it reports, stores the last reports, invokes the two callbacks
   and resets the per-root state *)
C21_StackEmptiesOnlyAtRootClose ==
    [][(timer_stack # <<>> /\ timer_stack' = <<>>) =>
          /\ call'.op = "end"
          /\ last_aggregated_report' # NoReport
          /\ last_trace_report' # NoReport
          /\ last_aggregated_report'[1].root_timer_data.span_id = timer_stack[1].span_id
          /\ timer_stack[1].log_name
                \in DOMAIN last_aggregated_report'[1].aggregated_values
          /\ Len(exported') = 2
          /\ exported'[1].arg = last_trace_report'[1]
          /\ exported'[2].arg = last_aggregated_report'[1]
          /\ reported_values' = EmptyDict /\ reported_traces' = <<>>
          /\ root_annotations' = <<>> /\ slow_annotations' = <<>>]_vars

(* What the code does: the statement of C21 holds of every call that returns;
   the one other way to empty the stack is a strict-mode end() whose name is
   not the root's while the root is the only open span, which pops the root
   and raises, touching nothing else *)
C21_EmptiedByRootCloseOrFailedAssert ==
    [][(timer_stack # <<>> /\ timer_stack' = <<>>) =>
          /\ call'.op = "end"
          /\ IF raised' = NoError
             THEN /\ last_aggregated_report'[1].root_timer_data.span_id
                        = timer_stack[1].span_id
                  /\ timer_stack[1].log_name
                        \in DOMAIN last_aggregated_report'[1].aggregated_values
                  /\ Len(exported') = 2
                  /\ reported_values' = EmptyDict /\ reported_traces' = <<>>
                  /\ root_annotations' = <<>> /\ slow_annotations' = <<>>
             ELSE /\ strict_assert
                  /\ Len(timer_stack) = 1
                  /\ timer_stack[1].name # call'.name
                  /\ exported' = <<>>
                  /\ UNCHANGED <<reported_values, reported_traces, root_annotations,
                                 slow_annotations, last_trace_report,
                                 last_aggregated_report>>]_vars

(* A root span completes, whether or not its callbacks return: an end() call
   gets past the assertion and has emptied the stack *)
RootCloses ==
    /\ call'.op = "end"
    /\ raised' # "AssertionError"
    /\ timer_stack # <<>>
    /\ timer_stack' = <<>>

(* What get_last_trace_report() and get_last_aggregated_report() return *)
get_last_reports == <<last_trace_report, last_aggregated_report>>

(* C22: the getters return None until a root completes; a call that completes
   a root makes them return the trace list and the report of that root, the
   ones the callbacks are given; no other call changes what they return *)
C22_LastReportsFrame ==
    [][/\ (last_trace_report = NoReport) = (last_aggregated_report = NoReport)
       /\ IF RootCloses
          THEN /\ last_trace_report' # NoReport
               /\ last_aggregated_report' # NoReport
               /\ last_aggregated_report'[1].root_timer_data.span_id
                     = timer_stack[1].span_id
               /\ exported'[1].arg = last_trace_report'[1]
               /\ Len(exported') = 2 => exported'[2].arg = last_aggregated_report'[1]
          ELSE get_last_reports' = get_last_reports]_vars

(* What the code does: C22 holds as long as every callback has returned; once
   a callback has raised, the reports returned are the table and the trace
   buffer the next root is filling, until a root completes with callbacks
   that return *)
C22_LastReportsFrameWhileCallbacksReturn ==
    [][IF RootCloses
       THEN /\ last_aggregated_report'[1].root_timer_data.span_id
                  = timer_stack[1].span_id
            /\ exported'[1].arg = last_trace_report'[1]
            /\ last_is_live' = (raised' = "CallbackError")
       ELSE /\ UNCHANGED last_is_live
            /\ IF last_is_live
               THEN /\ last_trace_report' = Report(reported_traces')
                    /\ last_aggregated_report'[1].aggregated_values = reported_values'
                    /\ last_aggregated_report'[1].root_timer_data
                          = last_aggregated_report[1].root_timer_data
               ELSE get_last_reports' = get_last_reports]_vars

C22_LiveWitness ==
    /\ last_is_live
    /\ timer_stack # <<>>
    /\ call.op = "end" /\ raised = NoError
    /\ Len(last_trace_report[1]) = 2
    /\ last_aggregated_report[1].root_timer_data.span_id = 1
    /\ Cardinality(DOMAIN last_aggregated_report[1].aggregated_values) = 2

(* A lenient end() names no open span while spans are open *)
UnmatchedEnd ==
    /\ ~strict_assert
    /\ call'.op = "end"
    /\ timer_stack # <<>>
    /\ \A i \in DOMAIN timer_stack : timer_stack[i].name # call'.name

(* C23: a lenient end() that names no open span pops the whole stack and
   closes the bottom span as the root: the time from its start to the stamped
   end, at least 0.001 ms, is added to the entry of its logPath and its count
   goes up by one, the reports are stored, both callbacks run and the
   per-root state is reset; the spans above it leave no trace record and
   change no entry of the table *)
C23_UnmatchedEndClosesRoot ==
    [][UnmatchedEnd =>
          LET root == timer_stack[1]
              report == last_aggregated_report'[1]
              values == report.aggregated_values
              tr_delta_ms == elapsed_ms(root.start_time, report.root_timer_data.end_time)
          IN /\ raised' = NoError
             /\ timer_stack' = <<>>
             /\ popped' = [i \in DOMAIN timer_stack |->
                              timer_stack[Len(timer_stack) - i + 1].name]
             /\ report.root_timer_data.span_id = root.span_id
             /\ report.root_timer_data.log_name = root.log_name
             /\ DOMAIN values = DOMAIN reported_values \cup {root.log_name}
             /\ values[root.log_name][1] =
                   tr_delta_ms + (IF root.log_name \in DOMAIN reported_values
                                  THEN reported_values[root.log_name][1] ELSE 0)
             /\ values[root.log_name][2] =
                   1 + (IF root.log_name \in DOMAIN reported_values
                        THEN reported_values[root.log_name][2] ELSE 0)
             /\ \A p \in DOMAIN reported_values \ {root.log_name} :
                   values[p] = reported_values[p]
             /\ \/ last_trace_report'[1] = reported_traces
                \/ /\ Front(last_trace_report'[1]) = reported_traces
                   /\ Last(last_trace_report'[1]).span_id = root.span_id
             /\ exported' = <<[func |-> "export_tracing_func",
                               arg |-> last_trace_report'[1]],
                              [func |-> "export_aggregated_timers_func", arg |-> report]>>
             /\ reported_values' = EmptyDict /\ reported_traces' = <<>>
             /\ root_annotations' = <<>> /\ slow_annotations' = <<>>]_vars

C23_Witness ==
    /\ ~strict_assert
    /\ call = [op |-> "end", name |-> "b"]
    /\ raised = NoError
    /\ popped = <<"", "a", "a">>
    /\ timer_stack = <<>>
    /\ last_aggregated_report # NoReport
    /\ last_aggregated_report[1].root_timer_data.span_id = 1
    /\ DOMAIN last_aggregated_report[1].aggregated_values = {"a"}
    /\ Len(last_trace_report[1]) = 1

(* The trace report delivered last and the trace buffer being filled *)
TraceLists == {reported_traces} \cup
              (IF last_trace_report = NoReport THEN {} ELSE {last_trace_report[1]})

(* The positions of the span with this id in a trace list *)
PositionsOf(traces, span_id) == {j \in DOMAIN traces : traces[j].span_id = span_id}

(* C24 as stated: in the trace report delivered last, every non-null
   parent_span_id is the id of a span at a later position of the report *)
C24_ParentInReport ==
    last_trace_report # NoReport =>
       \A i \in DOMAIN last_trace_report[1] :
          LET tr_data == last_trace_report[1][i]
          IN tr_data.parent_span_id # None =>
                \E j \in PositionsOf(last_trace_report[1], tr_data.parent_span_id) : j > i

(* C24 amended: a traced span's parent need not be traced; when it is, it is
   in the same trace list, once, at a later position.  No span is in a trace
   list twice, and none while it is still open. *)
C24_ParentLaterIfTraced ==
    \A traces \in TraceLists :
       /\ \A i \in DOMAIN traces :
             /\ PositionsOf(traces, traces[i].span_id) = {i}
             /\ traces[i].parent_span_id # None =>
                   \A j \in PositionsOf(traces, traces[i].parent_span_id) : j > i
       /\ \A k \in DOMAIN timer_stack :
             PositionsOf(reported_traces, timer_stack[k].span_id) = {}

(* A report delivered to a caller who nests properly, whose first span has a
   parent that was not traced and whose root is traced *)
C24_Witness ==
    /\ strict_assert /\ nested
    /\ call.op = "end" /\ raised = NoError /\ timer_stack = <<>>
    /\ last_trace_report # NoReport
    /\ Len(last_trace_report[1]) = 2
    /\ last_trace_report[1][1].parent_span_id = 2
    /\ last_trace_report[1][1].span_id = 3
    /\ last_trace_report[1][2].span_id = 1

(* A report whose first span has its parent, the root, after it *)
C24_ParentTracedWitness ==
    /\ last_trace_report # NoReport
    /\ Len(last_trace_report[1]) = 2
    /\ last_trace_report[1][1].parent_span_id = last_trace_report[1][2].span_id
    /\ Cardinality(DOMAIN last_aggregated_report[1].aggregated_values) = 3

====
